---- MODULE Spec2Model ----
(***************************************************************************)
(* Model of switchbot/__init__.py: the Switchbot command codec, the        *)
(* connect / write / disconnect session with its bounded retry, and the    *)
(* curtain facade with its cached position, battery and light level, which *)
(* a scan fills from advertisements.                                       *)
(*                                                                         *)
(* Strings of the program are sequences of one-character strings, so that  *)
(* their length and their characters are what the code sees.               *)
(* Python's None is "None"; where the program holds None or a string it is  *)
(* NoneStr, a sequence that is no string of characters.                    *)
(***************************************************************************)
EXTENDS Integers, Sequences, FiniteSets, TLC

None == "None"
NoneStr == <<"None">>

\* ---------------------------------------------------------------- bounds

\* Largest retry_count a device is constructed with (the default is 3).
MaxRetry == 2

\* ------------------------------------------------------ program constants

KEY_PASSWORD_PREFIX == <<"5", "7", "1", "1">>

PRESS_KEY == <<"5", "7", "0", "1", "0", "0">>
ON_KEY == <<"5", "7", "0", "1", "0", "1">>
OFF_KEY == <<"5", "7", "0", "1", "0", "2">>

OPEN_KEY == <<"5", "7", "0", "f", "4", "5", "0", "1", "0", "5", "f", "f", "0", "0">>
CLOSE_KEY == <<"5", "7", "0", "f", "4", "5", "0", "1", "0", "5", "f", "f", "6", "4">>
POSITION_KEY == <<"5", "7", "0", "F", "4", "5", "0", "1", "0", "5", "f", "f">>
STOP_KEY == <<"5", "7", "0", "F", "4", "5", "0", "1", "0", "0", "f", "f">>

ON_KEY_SUFFIX == <<"0", "1">>
OFF_KEY_SUFFIX == <<"0", "2">>
PRESS_KEY_SUFFIX == <<"0", "0">>

\* set_position's documented argument range, "(0-100)".
MinPosition == 0
MaxPosition == 100

\* ------------------------------------------------- formatting and parsing

LowerHexDigits == <<"0", "1", "2", "3", "4", "5", "6", "7", "8", "9", "a", "b", "c", "d", "e", "f">>
UpperHexDigits == <<"0", "1", "2", "3", "4", "5", "6", "7", "8", "9", "A", "B", "C", "D", "E", "F">>

HexChars == {LowerHexDigits[i] : i \in 1..16} \cup {UpperHexDigits[i] : i \in 1..16}

\* The hexadecimal digits of n >= 0, most significant first, no padding.
RECURSIVE HexOf(_, _)
HexOf(n, digits) ==
    IF n < 16 THEN <<digits[n + 1]>>
    ELSE HexOf(n \div 16, digits) \o <<digits[(n % 16) + 1]>>

RECURSIVE ZeroPad(_, _)
ZeroPad(s, width) == IF Len(s) >= width THEN s ELSE ZeroPad(<<"0">> \o s, width)

\* The precision left out of the format: "%X" % position.
FormatPosition_NoPadding(position) ==
    IF position >= 0 THEN HexOf(position, UpperHexDigits)
    ELSE <<"-">> \o HexOf(0 - position, UpperHexDigits)

\* "%0.2X" % position: upper-case hexadecimal, at least 2 digits, a minus sign
\* in front of the digits of a negative number.
FormatPosition(position) ==
    IF position >= 0 THEN ZeroPad(HexOf(position, UpperHexDigits), 2)
    ELSE <<"-">> \o ZeroPad(HexOf(0 - position, UpperHexDigits), 2)

\* binascii.a2b_hex(key) raises binascii.Error (a ValueError, not a
\* BTLEException) on an odd number of digits or on a non-hexadecimal digit.
A2bHexRaises(key) ==
    \/ Len(key) % 2 # 0
    \/ \E i \in 1..Len(key) : key[i] \notin HexChars

\* Python's s[a:b] and s[a:], for indices that may be negative.
PyIndex(n, i) ==
    IF i < 0 THEN (IF n + i < 0 THEN 0 ELSE n + i)
    ELSE (IF i > n THEN n ELSE i)

PySlice(s, a, b) == SubSeq(s, PyIndex(Len(s), a) + 1, PyIndex(Len(s), b))

PySliceFrom(s, a) == SubSeq(s, PyIndex(Len(s), a) + 1, Len(s))

\* int(s, 16) on strings of at most 2 characters: blanks around the number
\* are dropped, one sign may lead, and at least one digit must follow, all of
\* them hexadecimal (a "0x" prefix or an underscore needs 3 characters).
RECURSIVE StripLeft(_)
StripLeft(s) == IF s # <<>> /\ Head(s) = " " THEN StripLeft(Tail(s)) ELSE s

RECURSIVE StripRight(_)
StripRight(s) ==
    IF s # <<>> /\ s[Len(s)] = " " THEN StripRight(SubSeq(s, 1, Len(s) - 1)) ELSE s

Signed(s) == s # <<>> /\ Head(s) \in {"+", "-"}

Digits(s) == LET t == StripRight(StripLeft(s)) IN IF Signed(t) THEN Tail(t) ELSE t

IntRaises(s) == Digits(s) = <<>> \/ \E i \in 1..Len(Digits(s)) : Digits(s)[i] \notin HexChars

DigitValue(c) == CHOOSE v \in 0..15 : c = LowerHexDigits[v + 1] \/ c = UpperHexDigits[v + 1]

RECURSIVE Magnitude(_)
Magnitude(d) ==
    IF d = <<>> THEN 0 ELSE 16 * Magnitude(SubSeq(d, 1, Len(d) - 1)) + DigitValue(d[Len(d)])

IntBase16(s) ==
    IF Signed(StripLeft(s)) /\ Head(StripLeft(s)) = "-" THEN 0 - Magnitude(Digits(s))
    ELSE Magnitude(Digits(s))

\* str.lower() on the letters addresses are written with.
LowerChar(c) ==
    IF \E v \in 11..16 : c = UpperHexDigits[v] THEN LowerHexDigits[CHOOSE v \in 11..16 : c = UpperHexDigits[v]]
    ELSE c

Lower(s) == [i \in 1..Len(s) |-> LowerChar(s[i])]

\* ------------------------------------------------------------------ CRC-32
\* binascii.crc32 over bytes; a 32-bit word is a sequence of 32 bits, the most
\* significant first.

Word == 1..32

WordOfNibbles(nib) == [i \in Word |-> (nib[((i - 1) \div 4) + 1] \div (2 ^ (3 - ((i - 1) % 4)))) % 2]

CrcPolynomial == WordOfNibbles(<<14, 13, 11, 8, 8, 3, 2, 0>>)

AllOnes == [i \in Word |-> 1]

Xor(a, b) == [i \in Word |-> (a[i] + b[i]) % 2]

ShiftRight(a) == [i \in Word |-> IF i = 1 THEN 0 ELSE a[i - 1]]

WordOfByte(byte) == [i \in Word |-> IF i < 25 THEN 0 ELSE (byte \div (2 ^ (32 - i))) % 2]

RECURSIVE CrcShift(_, _)
CrcShift(crc, times) ==
    IF times = 0 THEN crc
    ELSE CrcShift(IF crc[32] = 1 THEN Xor(ShiftRight(crc), CrcPolynomial) ELSE ShiftRight(crc),
                  times - 1)

RECURSIVE CrcUpdate(_, _)
CrcUpdate(crc, bytes) ==
    IF bytes = <<>> THEN crc
    ELSE CrcUpdate(CrcShift(Xor(crc, WordOfByte(Head(bytes))), 8), Tail(bytes))

crc32(bytes) == Xor(CrcUpdate(AllOnes, bytes), AllOnes)

NibblesOfWord(w) == [k \in 1..8 |-> 8 * w[4 * k - 3] + 4 * w[4 * k - 2] + 2 * w[4 * k - 1] + w[4 * k]]

RECURSIVE StripLeadingZeros(_)
StripLeadingZeros(nib) ==
    IF Len(nib) > 1 /\ Head(nib) = 0 THEN StripLeadingZeros(Tail(nib)) ELSE nib

\* '%x' % word: lower-case hexadecimal without leading zeros.
FormatLowerHex(w) ==
    LET nib == StripLeadingZeros(NibblesOfWord(w))
    IN  [k \in 1..Len(nib) |-> LowerHexDigits[nib[k] + 1]]

\* password.encode('ascii') for the characters the passwords below use.
AsciiCode == ("a" :> 97) @@ ("b" :> 98) @@ ("c" :> 99) @@ ("e" :> 101) @@ ("o" :> 111)

EncodeAscii(password) == [i \in 1..Len(password) |-> AsciiCode[password[i]]]

\* SwitchbotDevice.__init__: the encoded password.
PasswordEncoded(password) ==
    IF password = NoneStr \/ password = <<>> THEN NoneStr
    ELSE FormatLowerHex(crc32(EncodeAscii(password)))

\* The passwords a device is constructed with: none, the empty string, and
\* passwords whose CRC-32 renders as 8 and as 7 hexadecimal digits.
Passwords == {NoneStr, <<>>, <<"a">>, <<"c">>}

\* ------------------------------------------------------------------- state

VARIABLES
    kind,               \* the class constructed: "Switchbot" or "SwitchbotCurtain"
    _mac,               \* the device address
    _interface,         \* the adapter index, or None
    _device,            \* the connection handle, None or "Peripheral"
    _retry_count,
    _password_encoded,
    _reverse,           \* SwitchbotCurtain only (FALSE on a Switchbot)
    _pos,               \* SwitchbotCurtain only (0 on a Switchbot)
    _light_level,       \* SwitchbotCurtain only
    _battery_percent,   \* SwitchbotCurtain only
    pc,                 \* where the running method stands; "idle" between calls
    op,                 \* the public method running or last run
    lastAdv,            \* the advertisement handleDiscovery saw last in this scan
    argPosition,        \* set_position's argument, -1 for the other methods
    key,                \* _sendcommand's key
    retry,              \* _sendcommand's retry
    command,            \* _sendcommand's command
    send_success,       \* _sendcommand's send_success
    exc,                \* the exception in flight through a finally, or None
    ret,                \* how the last call ended: None, "True", "False", "raised",
                        \* "returned" for update()
    attempts,           \* _sendcommand activations of the command
    connCalls,          \* Peripheral(...) constructions of the command
    connFails,          \*   ... that raised
    writeCalls,         \* _writekey activations of the command
    writeFails,         \*   ... that raised BTLEException or were not acknowledged
    acks,               \*   ... that were acknowledged
    discCalls,          \* transport disconnect() calls of the command
    discFails,          \*   ... that raised
    sleeps              \* time.sleep calls of the command

devVars == <<kind, _mac, _interface, _device, _retry_count, _password_encoded, _reverse>>
cacheVars == <<_pos, _light_level, _battery_percent>>
frameVars == <<pc, op, lastAdv, argPosition, key, retry, command, send_success, exc, ret>>
logVars == <<attempts, connCalls, connFails, writeCalls, writeFails, acks, discCalls, discFails, sleeps>>
vars == <<devVars, cacheVars, frameVars, logVars>>

Positions == MinPosition..MaxPosition

\* What the transport answers to a connect, to the write step and to a disconnect.
ConnectOutcomes == {"connected", "BTLEException"}
WriteOutcomes == {"ack", "noack", "BTLEException"}
DisconnectOutcomes == {"disconnected", "BTLEException"}

\* The address a device is constructed with, shortened to two characters, and
\* the addresses advertisements come from: the same one in the other case,
\* and another one.
Macs == {<<"a", "B">>}
AdvAddresses == {<<"A", "b">>, <<"a", "c">>}

\* The values of the type-22 field of the advertisements a scan delivers:
\* 6 hexadecimal digits after others; a position above 100; a second pair
\* that is not hexadecimal; 5 characters; 4 characters.
AdvValues ==
    { <<"0", "0", "0", "A", "1", "E", "3", "2">>,
      <<"0", "A", "F", "F", "3", "2">>,
      <<"0", "A", "Z", "Z", "3", "2">>,
      <<"A", "1", "E", "3", "2">> ,
      <<"1", "E", "3", "2">> }

\* getScanData() of the advertisements: one type-22 field, one field of
\* another type, and a type-22 field after a field of another type.
AdvData ==
    {<<<<22, v>>>> : v \in AdvValues}
        \cup {<<<<255, <<"0", "0", "0", "A", "1", "E", "3", "2">>>>>>}
        \cup {<<<<1, <<"0", "6">>>>, <<22, <<"0", "0", "0", "A", "1", "E", "3", "2">>>>>>}

Advertisements == [addr : AdvAddresses, data : AdvData]

\* No advertisement handled yet.
NoAdv == [addr |-> <<>>, data |-> <<>>]

\* SwitchbotDevice.__init__ and SwitchbotCurtain.__init__.
Init ==
    /\ kind \in {"Switchbot", "SwitchbotCurtain"}
    /\ _mac \in Macs
    /\ _interface = None
    /\ _device = None
    /\ _retry_count \in 0..MaxRetry
    /\ \E password \in Passwords : _password_encoded = PasswordEncoded(password)
    /\ _reverse \in (IF kind = "SwitchbotCurtain" THEN BOOLEAN ELSE {FALSE})
    /\ _pos = 0
    /\ _light_level = 0
    /\ _battery_percent = 0
    /\ pc = "idle"
    /\ op = None
    /\ lastAdv = NoAdv
    /\ argPosition = -1
    /\ key = <<>>
    /\ retry = 0
    /\ command = <<>>
    /\ send_success = FALSE
    /\ exc = None
    /\ ret = None
    /\ attempts = 0
    /\ connCalls = 0
    /\ connFails = 0
    /\ writeCalls = 0
    /\ writeFails = 0
    /\ acks = 0
    /\ discCalls = 0
    /\ discFails = 0
    /\ sleeps = 0

\* ------------------------------------------------------------ SwitchbotDevice

\* The on and off suffixes exchanged.
_commandkey_SwappedSuffix(k) ==
    IF _password_encoded = NoneStr THEN k
    ELSE KEY_PASSWORD_PREFIX \o _password_encoded
             \o (IF k = ON_KEY THEN OFF_KEY_SUFFIX
                 ELSE IF k = OFF_KEY THEN ON_KEY_SUFFIX
                 ELSE PRESS_KEY_SUFFIX)

_commandkey(k) ==
    IF _password_encoded = NoneStr THEN k
    ELSE KEY_PASSWORD_PREFIX \o _password_encoded
             \o (IF k = ON_KEY THEN ON_KEY_SUFFIX
                 ELSE IF k = OFF_KEY THEN OFF_KEY_SUFFIX
                 ELSE PRESS_KEY_SUFFIX)

\* Entry of _sendcommand(k, r): lines 96-98, up to the try.
SendCommandEntry(k, r) ==
    /\ key' = k
    /\ retry' = r
    /\ send_success' = FALSE
    /\ command' = _commandkey(k)
    /\ exc' = None
    /\ attempts' = attempts + 1
    /\ pc' = "connect"

\* A public method calls _sendcommand: a new command starts, the log restarts.
StartCommand(name, arg, k) ==
    /\ pc = "idle"
    /\ op' = name
    /\ lastAdv' = NoAdv
    /\ argPosition' = arg
    /\ ret' = None
    /\ key' = k
    /\ retry' = _retry_count
    /\ send_success' = FALSE
    /\ command' = _commandkey(k)
    /\ exc' = None
    /\ attempts' = 1
    /\ pc' = "connect"
    /\ connCalls' = 0
    /\ connFails' = 0
    /\ writeCalls' = 0
    /\ writeFails' = 0
    /\ acks' = 0
    /\ discCalls' = 0
    /\ discFails' = 0
    /\ sleeps' = 0
    /\ UNCHANGED devVars

\* _connect logging the BTLEException without raising it again: the attempt
\* goes on to the write with no handle.
_connect_SwallowsFailure ==
    /\ pc = "connect"
    /\ IF _device # None
       THEN /\ pc' = "write"
            /\ UNCHANGED <<_device, connCalls, connFails>>
       ELSE \E outcome \in ConnectOutcomes :
              /\ connCalls' = connCalls + 1
              /\ _device' = (IF outcome = "connected" THEN "Peripheral" ELSE None)
              /\ connFails' = (IF outcome = "connected" THEN connFails ELSE connFails + 1)
              /\ pc' = "write"
    /\ UNCHANGED <<kind, _mac, _interface, _retry_count, _password_encoded, _reverse, cacheVars>>
    /\ UNCHANGED <<op, lastAdv, argPosition, key, retry, command, send_success, exc, ret>>
    /\ UNCHANGED <<attempts, writeCalls, writeFails, acks, discCalls, discFails, sleeps>>

\* self._connect() inside the try of _sendcommand; a BTLEException is
\* re-raised by _connect and caught by _sendcommand, which goes to the finally.
_connect ==
    /\ pc = "connect"
    /\ IF _device # None
       THEN /\ pc' = "write"
            /\ UNCHANGED <<_device, connCalls, connFails>>
       ELSE \E outcome \in ConnectOutcomes :
              /\ connCalls' = connCalls + 1
              /\ IF outcome = "connected"
                 THEN /\ _device' = "Peripheral"
                      /\ connFails' = connFails
                      /\ pc' = "write"
                 ELSE /\ _device' = None
                      /\ connFails' = connFails + 1
                      /\ pc' = "disconnect"
    /\ UNCHANGED <<kind, _mac, _interface, _retry_count, _password_encoded, _reverse, cacheVars>>
    /\ UNCHANGED <<op, lastAdv, argPosition, key, retry, command, send_success, exc, ret>>
    /\ UNCHANGED <<attempts, writeCalls, writeFails, acks, discCalls, discFails, sleeps>>

\* send_success = self._writekey(command): the service and characteristic
\* lookups and the write raise BTLEException (caught by _sendcommand);
\* a2b_hex raises binascii.Error, which only the finally sees.
_writekey ==
    /\ pc = "write"
    /\ writeCalls' = writeCalls + 1
    /\ \E outcome \in (IF A2bHexRaises(command) THEN {"BTLEException", "binascii.Error"}
                       ELSE WriteOutcomes) :
         /\ send_success' = (outcome = "ack")
         /\ acks' = IF outcome = "ack" THEN acks + 1 ELSE acks
         /\ writeFails' = IF outcome \in {"noack", "BTLEException"} THEN writeFails + 1 ELSE writeFails
         /\ exc' = IF outcome = "binascii.Error" THEN outcome ELSE None
    /\ pc' = "disconnect"
    /\ UNCHANGED <<devVars, cacheVars>>
    /\ UNCHANGED <<op, lastAdv, argPosition, key, retry, command, ret>>
    /\ UNCHANGED <<attempts, connCalls, connFails, discCalls, discFails, sleeps>>

\* _disconnect, lines 69-70: the finally resets the handle, whatever
\* disconnect() did.
HandleAfterDisconnect_NoFinally(outcome) == IF outcome = "BTLEException" THEN _device ELSE None
HandleAfterDisconnect(outcome) == None

\* _disconnect, lines 67-68: a BTLEException of disconnect() is logged and
\* dropped; the exception in flight, if any, stays the one of the try block.
ExceptionAfterDisconnect_Raises(outcome) == IF outcome = "BTLEException" THEN outcome ELSE exc
ExceptionAfterDisconnect(outcome) == exc

\* The finally placed on the success path only: a failed attempt keeps its handle.
_disconnect_SkippedOnFailure ==
    /\ pc = "disconnect"
    /\ IF _device = None \/ ~send_success
       THEN UNCHANGED <<_device, discCalls, discFails>>
       ELSE \E outcome \in DisconnectOutcomes :
              /\ discCalls' = discCalls + 1
              /\ discFails' = IF outcome = "BTLEException" THEN discFails + 1 ELSE discFails
              /\ _device' = None
    /\ IF exc # None
       THEN /\ pc' = "idle"
            /\ ret' = "raised"
       ELSE /\ pc' = "check"
            /\ ret' = ret
    /\ UNCHANGED <<kind, _mac, _interface, _retry_count, _password_encoded, _reverse, cacheVars>>
    /\ UNCHANGED <<op, lastAdv, argPosition, key, retry, command, send_success, exc>>
    /\ UNCHANGED <<attempts, connCalls, connFails, writeCalls, writeFails, acks, sleeps>>

\* finally: self._disconnect(); then an exception in flight leaves _sendcommand
\* and every activation below it.
_disconnect ==
    /\ pc = "disconnect"
    /\ IF _device = None
       THEN UNCHANGED <<_device, discCalls, discFails, exc>>
       ELSE \E outcome \in DisconnectOutcomes :
              /\ discCalls' = discCalls + 1
              /\ discFails' = IF outcome = "BTLEException" THEN discFails + 1 ELSE discFails
              /\ _device' = HandleAfterDisconnect(outcome)
              /\ exc' = ExceptionAfterDisconnect(outcome)
    /\ IF exc' # None
       THEN /\ pc' = "idle"
            /\ ret' = "raised"
       ELSE /\ pc' = "check"
            /\ ret' = ret
    /\ UNCHANGED <<kind, _mac, _interface, _retry_count, _password_encoded, _reverse, cacheVars>>
    /\ UNCHANGED <<op, lastAdv, argPosition, key, retry, command, send_success>>
    /\ UNCHANGED <<attempts, connCalls, connFails, writeCalls, writeFails, acks, sleeps>>

\* The budget tested before the result: an acknowledged last attempt is lost.
ReturnResult_BudgetFirst ==
    /\ pc = "check"
    /\ send_success \/ retry < 1
    /\ ret' = IF retry < 1 THEN "False" ELSE "True"
    /\ pc' = "idle"
    /\ UNCHANGED <<devVars, cacheVars, logVars>>
    /\ UNCHANGED <<op, lastAdv, argPosition, key, retry, command, send_success, exc>>

\* Lines 106-110: return True, or return False when no retry is left.
ReturnResult ==
    /\ pc = "check"
    /\ send_success \/ retry < 1
    /\ ret' = IF send_success THEN "True" ELSE "False"
    /\ pc' = "idle"
    /\ UNCHANGED <<devVars, cacheVars, logVars>>
    /\ UNCHANGED <<op, lastAdv, argPosition, key, retry, command, send_success, exc>>

\* The retry taken whenever budget is left, acknowledged or not.
Retry_IgnoresSuccess ==
    /\ pc = "check"
    /\ ~(retry < 1)
    /\ sleeps' = sleeps + 1
    /\ SendCommandEntry(key, retry - 1)
    /\ UNCHANGED <<devVars, cacheVars>>
    /\ UNCHANGED <<op, lastAdv, argPosition, ret>>
    /\ UNCHANGED <<connCalls, connFails, writeCalls, writeFails, acks, discCalls, discFails>>

\* The retry counted down in the device's own retry count.
Retry_ConsumesRetryCount ==
    /\ pc = "check"
    /\ ~send_success
    /\ ~(retry < 1)
    /\ sleeps' = sleeps + 1
    /\ _retry_count' = _retry_count - 1
    /\ SendCommandEntry(key, retry - 1)
    /\ UNCHANGED <<kind, _mac, _interface, _device, _password_encoded, _reverse, cacheVars>>
    /\ UNCHANGED <<op, lastAdv, argPosition, ret>>
    /\ UNCHANGED <<connCalls, connFails, writeCalls, writeFails, acks, discCalls, discFails>>

\* Lines 111-113: sleep, then return self._sendcommand(key, retry - 1).
Retry ==
    /\ pc = "check"
    /\ ~send_success
    /\ ~(retry < 1)
    /\ sleeps' = sleeps + 1
    /\ SendCommandEntry(key, retry - 1)
    /\ UNCHANGED <<devVars, cacheVars>>
    /\ UNCHANGED <<op, lastAdv, argPosition, ret>>
    /\ UNCHANGED <<connCalls, connFails, writeCalls, writeFails, acks, discCalls, discFails>>

\* ------------------------------------------------------------------ Switchbot

turn_on ==
    /\ kind = "Switchbot"
    /\ StartCommand("turn_on", -1, ON_KEY)
    /\ UNCHANGED cacheVars

turn_off ==
    /\ kind = "Switchbot"
    /\ StartCommand("turn_off", -1, OFF_KEY)
    /\ UNCHANGED cacheVars

press ==
    /\ kind = "Switchbot"
    /\ StartCommand("press", -1, PRESS_KEY)
    /\ UNCHANGED cacheVars

\* ----------------------------------------------------------- SwitchbotCurtain

open ==
    /\ kind = "SwitchbotCurtain"
    /\ _pos' = (IF _reverse THEN 100 ELSE 0)
    /\ StartCommand("open", -1, OPEN_KEY)
    /\ UNCHANGED <<_light_level, _battery_percent>>

\* close() storing the unreversed target whatever reverse_mode is.
close_IgnoresReverse ==
    /\ kind = "SwitchbotCurtain"
    /\ _pos' = 100
    /\ StartCommand("close", -1, CLOSE_KEY)
    /\ UNCHANGED <<_light_level, _battery_percent>>

close ==
    /\ kind = "SwitchbotCurtain"
    /\ _pos' = (IF _reverse THEN 0 ELSE 100)
    /\ StartCommand("close", -1, CLOSE_KEY)
    /\ UNCHANGED <<_light_level, _battery_percent>>

\* stop() storing a position as open() and close() do.
stop_StoresPosition ==
    /\ kind = "SwitchbotCurtain"
    /\ _pos' = 0
    /\ StartCommand("stop", -1, STOP_KEY)
    /\ UNCHANGED <<_light_level, _battery_percent>>

stop ==
    /\ kind = "SwitchbotCurtain"
    /\ StartCommand("stop", -1, STOP_KEY)
    /\ UNCHANGED cacheVars

\* The reversal applied whatever reverse_mode is.
DevicePosition_AlwaysReversed(position) == 100 - position

\* position after line 167, the value stored and transmitted.
DevicePosition(position) == IF _reverse THEN 100 - position ELSE position

set_position ==
    /\ kind = "SwitchbotCurtain"
    /\ \E position \in Positions :
         /\ _pos' = DevicePosition(position)
         /\ StartCommand("set_position", position, POSITION_KEY \o FormatPosition(DevicePosition(position)))
    /\ UNCHANGED <<_light_level, _battery_percent>>

\* update(): the scan starts; no command is running, its frame and log are gone.
update ==
    /\ kind = "SwitchbotCurtain"
    /\ pc = "idle"
    /\ pc' = "scan"
    /\ op' = "update"
    /\ lastAdv' = NoAdv
    /\ argPosition' = -1
    /\ ret' = None
    /\ key' = <<>>
    /\ retry' = 0
    /\ command' = <<>>
    /\ send_success' = FALSE
    /\ exc' = None
    /\ attempts' = 0
    /\ connCalls' = 0
    /\ connFails' = 0
    /\ writeCalls' = 0
    /\ writeFails' = 0
    /\ acks' = 0
    /\ discCalls' = 0
    /\ discFails' = 0
    /\ sleeps' = 0
    /\ UNCHANGED <<devVars, cacheVars>>

\* handleDiscovery, line 206, comparing the addresses as they are written.
AddressMatches_CaseSensitive(addr) == _mac = addr

\* handleDiscovery, line 206.
AddressMatches(addr) == Lower(_mac) = Lower(addr)

\* handleDiscovery, lines 207-212, on the fields left in data: cache is the
\* three cached fields and whether an int() raised ValueError, which ends the
\* loop with the assignments made so far.
RECURSIVE HandleScanData(_, _)
HandleScanData(data, cache) ==
    IF data = <<>> THEN cache
    ELSE IF Head(data)[1] # 22 THEN HandleScanData(Tail(data), cache)
    ELSE LET barray == Head(data)[2]
             battery == PySlice(barray, -6, -4)
             position == PySlice(barray, -4, -2)
             light == PySliceFrom(barray, -2)
         IN  IF IntRaises(battery) THEN [cache EXCEPT !.raised = TRUE]
             ELSE IF IntRaises(position)
                  THEN [cache EXCEPT !.battery = IntBase16(battery), !.raised = TRUE]
             ELSE IF IntRaises(light)
                  THEN [cache EXCEPT !.battery = IntBase16(battery),
                                     !.pos = IntBase16(position),
                                     !.raised = TRUE]
             ELSE HandleScanData(Tail(data),
                                 [battery |-> IntBase16(battery),
                                  pos |-> IntBase16(position),
                                  light |-> IntBase16(light),
                                  raised |-> FALSE])

\* The scanner calls handleDiscovery with an advertisement; a ValueError of
\* handleDiscovery has no handler in it nor in update(), and leaves both.
handleDiscovery ==
    /\ pc = "scan"
    /\ \E adv \in Advertisements :
         LET before == [battery |-> _battery_percent, pos |-> _pos,
                        light |-> _light_level, raised |-> FALSE]
             after == IF AddressMatches(adv.addr) THEN HandleScanData(adv.data, before)
                      ELSE before
         IN  /\ lastAdv' = adv
             /\ _battery_percent' = after.battery
             /\ _pos' = after.pos
             /\ _light_level' = after.light
             /\ pc' = (IF after.raised THEN "idle" ELSE "scan")
             /\ ret' = (IF after.raised THEN "raised" ELSE ret)
    /\ UNCHANGED <<devVars, logVars>>
    /\ UNCHANGED <<op, argPosition, key, retry, command, send_success, exc>>

\* scan(scan_timeout) returns after the timeout, and update() with it.
ScanTimeout ==
    /\ pc = "scan"
    /\ pc' = "idle"
    /\ ret' = "returned"
    /\ UNCHANGED <<devVars, cacheVars, logVars>>
    /\ UNCHANGED <<op, lastAdv, argPosition, key, retry, command, send_success, exc>>

\* -------------------------------------------------------------- the programs
\* Spec: a device of either class and its commands.

Next ==
    \/ turn_on
    \/ turn_off
    \/ press
    \/ open
    \/ close
    \/ stop
    \/ set_position
    \/ _connect
    \/ _writekey
    \/ _disconnect
    \/ ReturnResult
    \/ Retry

Spec == Init /\ [][Next]_vars

\* A SwitchbotCurtain constructed with retry_count = 1, its commands and its
\* scans.
CurtainInit ==
    /\ Init
    /\ kind = "SwitchbotCurtain"
    /\ _retry_count = 1

CurtainNext ==
    \/ open
    \/ close
    \/ stop
    \/ set_position
    \/ update
    \/ handleDiscovery
    \/ ScanTimeout
    \/ _connect
    \/ _writekey
    \/ _disconnect
    \/ ReturnResult
    \/ Retry

CurtainSpec == CurtainInit /\ [][CurtainNext]_vars

\* -------------------------------------------------------------------- claims

\* A command has ended: the public method returned or raised.
Ended == pc = "idle" /\ ret # None /\ op # "update"

\* C1: when every connect of a command succeeded, the write failed on the
\* first N attempts (not acknowledged, or a BTLEException) and was
\* acknowledged on attempt N+1, N within the retry count, the command returns
\* True and the transport's disconnect was called exactly N+1 times.
C1_AckAfterNFailures ==
    \A N \in 0..(MaxRetry + 1) :
        (Ended /\ N <= _retry_count /\ connFails = 0 /\ writeFails = N /\ acks = 1)
            => (ret = "True" /\ discCalls = N + 1 /\ attempts = N + 1)

C1_Witness ==
    /\ Ended
    /\ _retry_count = 2
    /\ connFails = 0
    /\ writeFails = 2
    /\ acks = 1
    /\ ret = "True"
    /\ discCalls = 3

\* C2: a command makes at most retry count + 1 send attempts, and one whose
\* every attempt failed made exactly retry count + 1 attempts and returned
\* False.
C2_BoundedAttempts ==
    /\ attempts <= _retry_count + 1
    /\ (Ended /\ acks = 0) => (attempts = _retry_count + 1 /\ ret = "False")

\* C3: when a command has ended, by True, by False or by an exception, the
\* device holds no connection handle.
C3_HandleReleasedOnExit == (pc = "idle") => (_device = None)

C3_Witness ==
    /\ Ended
    /\ ret = "raised"
    /\ discCalls = 1
    /\ discFails = 1
    /\ _device = None

\* C4: at most one connection is open: no connect is attempted while a handle
\* is held, the successful connects exceed the disconnect calls by one exactly
\* while the handle is held, and by none at the next attempt and at the end.
C4_OneConnection ==
    /\ (pc = "connect") => (_device = None)
    /\ (connCalls - connFails) - discCalls = (IF _device = None THEN 0 ELSE 1)
    /\ (pc \in {"connect", "check", "idle"}) => (discCalls = connCalls - connFails)

C4_Witness ==
    /\ pc = "connect"
    /\ attempts = 3
    /\ connCalls = 2
    /\ connFails = 0
    /\ discCalls = 2
    /\ _device = None

\* C5: every command ends by returning a boolean, and False only after
\* retry count + 1 attempts that each failed in connect or in write.
C5_EndsWithBoolean ==
    Ended =>
        /\ ret \in {"True", "False"}
        /\ (ret = "False") => (attempts = _retry_count + 1 /\ connFails + writeFails = attempts)

\* C6: a disconnect that raised changes nothing: the handle is None after it,
\* the command returns True exactly when a write was acknowledged and False
\* exactly when retry count + 1 attempts failed, and the command raises only
\* the exception of its try block.
C6_DisconnectFailureSwallowed ==
    (discFails > 0 /\ pc \in {"check", "idle"}) =>
        /\ _device = None
        /\ (pc = "check") => (exc = None /\ send_success = (acks = 1))
        /\ Ended => /\ (ret = "True") = (acks = 1)
                    /\ (ret = "False") = (acks = 0 /\ exc = None /\ attempts = _retry_count + 1)
                    /\ (ret = "raised") = (exc = "binascii.Error")

C6_Witness ==
    /\ Ended
    /\ ret = "True"
    /\ attempts = 2
    /\ discFails = 2
    /\ discCalls = 2

\* C7: after an acknowledged write the command makes no connect, no write,
\* no sleep and no further attempt: it calls the disconnect of that attempt
\* and returns True.
C7_NothingAfterAck ==
    [][(acks > 0 /\ pc # "idle") =>
          /\ connCalls' = connCalls
          /\ writeCalls' = writeCalls
          /\ sleeps' = sleeps
          /\ attempts' = attempts
          /\ discCalls' = (IF pc = "disconnect" THEN discCalls + 1 ELSE discCalls)
          /\ pc' = (IF pc = "disconnect" THEN "check" ELSE "idle")
          /\ (pc' = "idle") => (ret' = "True")]_vars

C7_Witness ==
    /\ Ended
    /\ ret = "True"
    /\ attempts = 1
    /\ retry = 2
    /\ discCalls = 1

\* The last two characters of a string.
Suffix2(str) == SubSeq(str, Len(str) - 1, Len(str))

\* C8: the command sent for a key is the key itself without a password;
\* with a password it is "5711", the encoded password and a suffix that is
\* "01" exactly for the on key, "02" exactly for the off key and "00" for
\* every other key.
C8_CommandEncoding ==
    (op # None) =>
        IF _password_encoded = NoneStr THEN command = key
        ELSE /\ Len(command) = 4 + Len(_password_encoded) + 2
             /\ SubSeq(command, 1, 4) = <<"5", "7", "1", "1">>
             /\ SubSeq(command, 5, Len(command) - 2) = _password_encoded
             /\ (Suffix2(command) = <<"0", "1">>) = (key = ON_KEY)
             /\ (Suffix2(command) = <<"0", "2">>) = (key = OFF_KEY)
             /\ (Suffix2(command) = <<"0", "0">>) = (key \notin {ON_KEY, OFF_KEY})

C8_Witness ==
    /\ op = "turn_off"
    /\ key = OFF_KEY
    /\ command = <<"5", "7", "1", "1", "e", "8", "b", "7", "b", "e", "4", "3", "0", "2">>

\* C9: from set_position(p) on a curtain without reverse mode on, through the
\* send and after it, however it ends, the cached position is p.
C9_PositionCachedBeforeSend ==
    (op = "set_position" /\ ~_reverse) => (_pos = argPosition)

C9_Witness ==
    /\ op = "set_position"
    /\ ~_reverse
    /\ argPosition = 70
    /\ _pos = 70
    /\ Ended
    /\ ret = "False"

\* C10: with reverse mode the cached position is 0 from close() on and 100
\* from open() on; without it, 100 from close() on and 0 from open() on;
\* through the send and after it, however it ends.
C10_OpenCloseCache ==
    /\ (op = "close" /\ _reverse) => (_pos = 0)
    /\ (op = "open" /\ _reverse) => (_pos = 100)
    /\ (op = "close" /\ ~_reverse) => (_pos = 100)
    /\ (op = "open" /\ ~_reverse) => (_pos = 0)

C10_Witness ==
    /\ op = "close"
    /\ _reverse
    /\ _pos = 0
    /\ Ended
    /\ ret = "False"

\* The value of one hexadecimal digit and of a pair of them.
HexDigitValue(c) ==
    CHOOSE v \in 0..15 : c = LowerHexDigits[v + 1] \/ c = UpperHexDigits[v + 1]

HexPairValue(pair) == 16 * HexDigitValue(pair[1]) + HexDigitValue(pair[2])

\* A command method, not update(), is running or was the last to run.
InCommand == op \notin {None, "update"}

\* C11: the key set_position(p) sends is the set-position prefix followed by
\* exactly 2 hexadecimal digits whose value is the device-facing position, p
\* without reverse mode and 100 - p with it.
C11_PositionEncoding ==
    (op = "set_position") =>
        /\ Len(key) = Len(POSITION_KEY) + 2
        /\ SubSeq(key, 1, Len(POSITION_KEY)) = POSITION_KEY
        /\ \A i \in 1..2 : Suffix2(key)[i] \in HexChars
        /\ HexPairValue(Suffix2(key)) = (IF _reverse THEN 100 - argPosition ELSE argPosition)

C11_Witness ==
    /\ op = "set_position"
    /\ _reverse
    /\ argPosition = 95
    /\ Suffix2(key) = <<"0", "5">>

\* C18: each attempt makes one connect; an attempt whose connect failed makes
\* no write and no disconnect call and leaves the handle None; a write is made
\* only on the handle of that attempt's successful connect; and each failed
\* attempt, by connect or by write, takes one unit of the retry budget.
C18_ConnectFailure ==
    InCommand =>
        /\ connCalls = attempts - (IF pc = "connect" THEN 1 ELSE 0)
        /\ writeCalls = (connCalls - connFails) - (IF pc = "write" THEN 1 ELSE 0)
        /\ discCalls = (connCalls - connFails) - (IF _device # None THEN 1 ELSE 0)
        /\ (pc = "write") => (_device = "Peripheral")
        /\ (_device # None) => (pc \in {"write", "disconnect"})
        /\ retry = _retry_count - (attempts - 1)
        /\ (Ended /\ ret = "False") => (connFails + writeFails = _retry_count + 1)

C18_Witness ==
    /\ InCommand
    /\ Ended
    /\ ret = "False"
    /\ attempts = 2
    /\ connFails = 2
    /\ writeCalls = 0
    /\ discCalls = 0
    /\ _device = None

\* C19: the payload handed to the write step has an even number of digits,
\* all hexadecimal, so that its conversion to binary does not fail.
C19_PayloadIsWholeBytes ==
    (pc = "write") => (Len(command) % 2 = 0 /\ ~A2bHexRaises(command))

\* C20: within one reverse-mode setting, set_position leaves the cached
\* position that open() leaves when it transmits open's device position 0,
\* and the one that close() leaves when it transmits close's 100.
C20_ConsistentScale ==
    (op = "set_position") =>
        /\ (HexPairValue(Suffix2(key)) = HexPairValue(Suffix2(OPEN_KEY)))
               => (_pos = (IF _reverse THEN 100 ELSE 0))
        /\ (HexPairValue(Suffix2(key)) = HexPairValue(Suffix2(CLOSE_KEY)))
               => (_pos = (IF _reverse THEN 0 ELSE 100))

\* ------------------------------------------------------------ claims on scans

\* This step is a call of handleDiscovery, with the advertisement lastAdv'.
HandledStep == pc = "scan" /\ ret' # "returned"

\* The values of the type-22 fields of an advertisement, in order.
Type22Values(adv) ==
    LET fields == SelectSeq(adv.data, LAMBDA f : f[1] = 22)
    IN  [i \in 1..Len(fields) |-> fields[i][2]]

\* A value with 6 characters at least, the last 6 of them hexadecimal digits.
WellFormedValue(v) ==
    /\ Len(v) >= 6
    /\ \A i \in (Len(v) - 5)..Len(v) : v[i] \in HexChars

\* Two addresses equal but for the case of their letters.
SameAddress(a, b) == Lower(a) = Lower(b)

\* C12: a type-22 value from the matching device that has fewer than 6
\* characters, or a pair among its last three that is not hexadecimal, leaves
\* the cached battery, position and light level as they were.
C12_MalformedDiscarded ==
    [][(/\ HandledStep
        /\ SameAddress(lastAdv'.addr, _mac)
        /\ \E i \in 1..Len(Type22Values(lastAdv')) : ~WellFormedValue(Type22Values(lastAdv')[i]))
          => UNCHANGED cacheVars]_vars

\* C13: no advertisement ends a scan: update() always ends by returning.
C13_ScanNeverAborted == (op = "update" /\ pc = "idle") => (ret = "returned")

\* C14: an advertisement whose type-22 values are all well-formed overwrites
\* the battery, the position and the light level with the values of the three
\* last pairs of its type-22 value when its address is the device's, but for
\* case, and it has a type-22 field; otherwise it leaves the three unchanged.
C14_MatchingAdvertisementStored ==
    [][(/\ HandledStep
        /\ \A i \in 1..Len(Type22Values(lastAdv')) : WellFormedValue(Type22Values(lastAdv')[i]))
          => LET values == Type22Values(lastAdv')
                 v == values[Len(values)]
                 n == Len(v)
             IN  IF SameAddress(lastAdv'.addr, _mac) /\ values # <<>>
                 THEN /\ _battery_percent' = HexPairValue(SubSeq(v, n - 5, n - 4))
                      /\ _pos' = HexPairValue(SubSeq(v, n - 3, n - 2))
                      /\ _light_level' = HexPairValue(SubSeq(v, n - 1, n))
                 ELSE UNCHANGED cacheVars]_vars

C14_Witness ==
    /\ pc = "scan"
    /\ _mac = <<"a", "B">>
    /\ lastAdv = [addr |-> <<"A", "b">>,
                  data |-> <<<<22, <<"0", "0", "0", "A", "1", "E", "3", "2">>>>>>]
    /\ _battery_percent = 10
    /\ _pos = 30
    /\ _light_level = 50

\* C15: the cached position and the cached battery percent of a curtain are
\* within 0..100.
C15_CacheInRange ==
    (kind = "SwitchbotCurtain") => (_pos \in 0..100 /\ _battery_percent \in 0..100)

\* C16: no step of a command or of a scan changes the address, the interface,
\* the encoded password or the retry count, and every command starts with the
\* retry count the device was constructed with.
C16_IdentityImmutable ==
    [][/\ UNCHANGED <<_mac, _interface, _password_encoded, _retry_count>>
       /\ (pc = "idle" /\ pc' = "connect") => (retry' = _retry_count /\ attempts' = 1)]_vars

C16_Witness ==
    /\ Ended
    /\ ret = "False"
    /\ attempts = 2
    /\ retry = 0
    /\ _retry_count = 1
    /\ _battery_percent = 10

\* C17: no step of a command changes the cached battery or light level; the
\* cached position changes only in the call of open, close or set_position,
\* never in stop() nor in a step of the send.
C17_CommandsFrameCache ==
    [][(pc # "scan" /\ pc' # "scan") =>
          /\ _battery_percent' = _battery_percent
          /\ _light_level' = _light_level
          /\ (pc # "idle") => (_pos' = _pos)
          /\ (op' = "stop") => (_pos' = _pos)
          /\ (_pos' # _pos) => (op' \in {"open", "close", "set_position"})]_vars

C17_Witness ==
    /\ op = "stop"
    /\ Ended
    /\ ret = "False"
    /\ _pos = 30
    /\ _battery_percent = 10
    /\ _light_level = 50

====
